---- MODULE Spec2Model ----
(***************************************************************************)
(* Model of the Desktop Commander setup script (setup-claude-server):      *)
(* setup() and restartClaude(), the step log, the diagnostic log and the   *)
(* host configuration file claude_desktop_config.json.                     *)
(*                                                                         *)
(* The host config file is modelled as a text that is either a JSON        *)
(* document or not parseable; JSON.parse / JSON.stringify convert between  *)
(* texts and JavaScript values (arrays carry own non-index properties in   *)
(* memory, which a JSON text cannot hold).  The script is an ES module, so *)
(* it runs in strict mode.  Timestamps of the step log are left out.       *)
(***************************************************************************)
EXTENDS Integers, Sequences, FiniteSets, TLC

\* ------------------------------------------------------------------ bounds
\* Number of consecutive executions of the script that are explored.
MaxRuns == 2

\* ------------------------------------------------- JavaScript / JSON values
NoProps == [k \in {} |-> [t |-> "undefined"]]

Undefined == [t |-> "undefined"]
JNull == [t |-> "null"]
\* A number, named by its shortest decimal numeral.
JNum(n) == [t |-> "num", n |-> n]
JStr(s) == [t |-> "str", s |-> s]
JObj(p) == [t |-> "obj", p |-> p]
\* An array in memory: elements plus own non-index properties.
JArr(e) == [t |-> "arr", e |-> e, p |-> NoProps]
\* An array of a JSON text: elements only.
DocArr(e) == [t |-> "arr", e |-> e]
DocObj(p) == [t |-> "obj", p |-> p]

\* ToBoolean, as applied by `!x` and `if (x)`.
Truthy(v) ==
    CASE v.t = "undefined" -> FALSE
      [] v.t = "null" -> FALSE
      [] v.t = "num" -> v.n # "0"
      [] v.t = "str" -> v.s # ""
      [] OTHER -> TRUE

\* obj.key throws a TypeError exactly when obj is null or undefined.
GetThrows(v) == v.t \in {"null", "undefined"}

\* obj.key for a key that is not an array index or a built-in property.
GetProp(v, key) ==
    IF v.t \in {"obj", "arr"} /\ key \in DOMAIN v.p THEN v.p[key] ELSE Undefined

\* obj.key = x in strict mode throws a TypeError unless obj is an object.
SetThrows(v) == v.t \notin {"obj", "arr"}

SetProp(v, key, x) ==
    [v EXCEPT !.p = [k \in (DOMAIN v.p) \cup {key} |-> IF k = key THEN x ELSE v.p[k]]]

\* delete obj.key
DeleteProp(v, key) ==
    [v EXCEPT !.p = [k \in (DOMAIN v.p) \ {key} |-> v.p[k]]]

RECURSIVE JSONstringify(_)
\* JSON.stringify(value, null, 2): the JSON document of a value.  Own
\* properties of an array that are not indices are not serialized, and
\* neither are object properties whose value is undefined.
JSONstringify(v) ==
    CASE v.t = "obj" ->
           DocObj([k \in {j \in DOMAIN v.p : v.p[j].t # "undefined"} |-> JSONstringify(v.p[k])])
      [] v.t = "arr" ->
           DocArr([i \in DOMAIN v.e |-> IF v.e[i].t = "undefined" THEN JNull ELSE JSONstringify(v.e[i])])
      [] OTHER -> v

\* The Number a numeral of a JSON text becomes: the nearest IEEE 754 double
\* (ties to even), so an integer beyond 2^53 can lose its last digit.
ToDouble(numeral) ==
    CASE numeral = "9007199254740993" -> "9007199254740992"
      [] OTHER -> numeral

RECURSIVE Revive(_)
\* The value JSON.parse builds for a JSON document.
Revive(d) ==
    CASE d.t = "obj" -> JObj([k \in DOMAIN d.p |-> Revive(d.p[k])])
      [] d.t = "num" -> JNum(ToDouble(d.n))
      [] d.t = "arr" -> JArr([i \in DOMAIN d.e |-> Revive(d.e[i])])
      [] OTHER -> d

\* ------------------------------------------------------------- file texts
JsonText(d) == [ok |-> TRUE, doc |-> d]
\* A text that is not JSON.
Garbage == [ok |-> FALSE, doc |-> [t |-> "garbage"]]
\* The empty text a file has right after it was opened for writing.
EmptyText == [ok |-> FALSE, doc |-> [t |-> "empty"]]
\* A proper prefix of a text, left by a write that stopped midway.
PartialText == [ok |-> FALSE, doc |-> [t |-> "partial"]]

\* JSON.parse(text): throws a SyntaxError on a text that is not JSON.
JSONparseThrows(text) == ~text.ok
JSONparse(text) == Revive(text.doc)

Absent == [exists |-> FALSE, text |-> EmptyText]
FileOf(text) == [exists |-> TRUE, text |-> text]


\* ------------------------------------------------------ program constants
LegacyName == "desktopCommander"
ServerName == "desktop-commander"

\* join(__dirname, 'dist', 'index.js') and join(APPDATA, "npm", "npx.cmd")
IndexPath == "<__dirname>/dist/index.js"
NpxCmdPath == "<APPDATA>\\\\npm\\\\npx.cmd"

DebugEnv == JObj([NODE_OPTIONS |-> JStr("--trace-warnings --trace-exit"), DEBUG |-> JStr("*")])


\* A default config with the shells of the two kinds of platform exchanged.
DefaultConfig_swapped(isWindows) ==
    JObj([serverConfig |->
            IF isWindows
            THEN JObj([command |-> JStr("/bin/sh"), args |-> JArr(<<JStr("-c")>>)])
            ELSE JObj([command |-> JStr("cmd.exe"), args |-> JArr(<<JStr("/c")>>)])])

\* The default config written when the host config file does not exist.
DefaultConfig(isWindows) ==
    JObj([serverConfig |->
            IF isWindows
            THEN JObj([command |-> JStr("cmd.exe"), args |-> JArr(<<JStr("/c")>>)])
            ELSE JObj([command |-> JStr("/bin/sh"), args |-> JArr(<<JStr("-c")>>)])])


\* A prepare_server_config whose debug entry for a local run has no env.
BuildServerConfig_noLocalEnv(isWindows, isNpx, debugMode) ==
    IF debugMode
    THEN IF isNpx
         THEN JObj([command |-> JStr(IF isWindows THEN "node.exe" ELSE "node"),
                    args |-> JArr(<<JStr("--inspect-brk=9229"),
                                    JStr(IF isWindows THEN NpxCmdPath ELSE "$(which npx)"),
                                    JStr("@wonderwhy-er/desktop-commander@latest")>>),
                    env |-> DebugEnv])
         ELSE JObj([command |-> JStr(IF isWindows THEN "node.exe" ELSE "node"),
                    args |-> JArr(<<JStr("--inspect-brk=9229"), JStr(IndexPath)>>)])
    ELSE IF isNpx
         THEN JObj([command |-> JStr(IF isWindows THEN "npx.cmd" ELSE "npx"),
                    args |-> JArr(<<JStr("@wonderwhy-er/desktop-commander@latest")>>)])
         ELSE JObj([command |-> JStr("node"),
                    args |-> JArr(<<JStr(IndexPath)>>)])

\* serverConfig, the launch entry built by the prepare_server_config step.
BuildServerConfig(isWindows, isNpx, debugMode) ==
    IF debugMode
    THEN IF isNpx
         THEN JObj([command |-> JStr(IF isWindows THEN "node.exe" ELSE "node"),
                    args |-> JArr(<<JStr("--inspect-brk=9229"),
                                    JStr(IF isWindows THEN NpxCmdPath ELSE "$(which npx)"),
                                    JStr("@wonderwhy-er/desktop-commander@latest")>>),
                    env |-> DebugEnv])
         ELSE JObj([command |-> JStr(IF isWindows THEN "node.exe" ELSE "node"),
                    args |-> JArr(<<JStr("--inspect-brk=9229"), JStr(IndexPath)>>),
                    env |-> DebugEnv])
    ELSE IF isNpx
         THEN JObj([command |-> JStr(IF isWindows THEN "npx.cmd" ELSE "npx"),
                    args |-> JArr(<<JStr("@wonderwhy-er/desktop-commander@latest")>>)])
         ELSE JObj([command |-> JStr("node"),
                    args |-> JArr(<<JStr(IndexPath)>>)])

\* The body of the update_config try block up to the write: does an
\* assignment or a property read throw a TypeError?
MergeThrows(config) ==
    \/ GetThrows(config)
    \/ ~Truthy(GetProp(config, "mcpServers")) /\ SetThrows(config)
    \/ Truthy(GetProp(config, "mcpServers")) /\ SetThrows(GetProp(config, "mcpServers"))

\* A merge that appends the new args to the args of the entry it finds.
MergeConfig_accumulate(config, serverConfig) ==
    LET c1 == IF ~Truthy(GetProp(config, "mcpServers"))
              THEN SetProp(config, "mcpServers", JObj(NoProps))
              ELSE config
        m1 == GetProp(c1, "mcpServers")
        m2 == IF Truthy(GetProp(m1, LegacyName)) THEN DeleteProp(m1, LegacyName) ELSE m1
        found == GetProp(m1, ServerName)
        entry == IF found.t = "obj" /\ GetProp(found, "args").t = "arr"
                 THEN SetProp(serverConfig, "args",
                              JArr(GetProp(found, "args").e \o GetProp(serverConfig, "args").e))
                 ELSE serverConfig
    IN  SetProp(c1, "mcpServers", SetProp(m2, ServerName, entry))

\* config after the three statements of the update_config try block.
MergeConfig(config, serverConfig) ==
    LET c1 == IF ~Truthy(GetProp(config, "mcpServers"))
              THEN SetProp(config, "mcpServers", JObj(NoProps))
              ELSE config
        m1 == GetProp(c1, "mcpServers")
        m2 == IF Truthy(GetProp(m1, LegacyName)) THEN DeleteProp(m1, LegacyName) ELSE m1
    IN  SetProp(c1, "mcpServers", SetProp(m2, ServerName, serverConfig))


\* ------------------------------------------------------ execution context
\* The signals getExecutionContext() reads besides import.meta.url:
\* npm_lifecycle_event === 'npx', npm_execpath and _ including 'npx',
\* npm_config_global === 'true', argv[1] including 'node_modules/.bin', and
\* npm_lifecycle_script being set.
EnvSignals ==
    [lifecycleEventNpx : BOOLEAN, execpathNpx : BOOLEAN, underscoreNpx : BOOLEAN,
     configGlobal : BOOLEAN, argvBin : BOOLEAN, lifecycleScript : BOOLEAN]

\* getExecutionContext(): the run method, first match wins (isCI and shell
\* are left out).
getExecutionContext(s, urlInNodeModules) ==
    LET npx == \/ s.lifecycleEventNpx
               \/ s.execpathNpx
               \/ s.underscoreNpx
               \/ urlInNodeModules
        global == s.configGlobal \/ s.argvBin
        npmScript == s.lifecycleScript
    IN  [runMethod |-> IF npx THEN "npx"
                       ELSE IF global THEN "global"
                       ELSE IF npmScript THEN "npm_script"
                       ELSE "direct"]

\* ------------------------------------------------------------ step log
NoError == [prefix |-> "", cause |-> "null"]
\* new Error(`${prefix}${cause.message}`)
Err(prefix, cause) == [prefix |-> prefix, cause |-> cause]


\* An addSetupStep that puts the new entry in front (unshift).
addSetupStep_front(steps, step) ==
    <<[step |-> step, status |-> "started", error |-> NoError]>> \o steps

\* addSetupStep(step): the log after the push; the index returned is the
\* length of the log before the push.
addSetupStep(steps, step) ==
    Append(steps, [step |-> step, status |-> "started", error |-> NoError])

\* updateSetupStep(index, status, error)
updateSetupStep(steps, index, status, error) ==
    IF index + 1 \in DOMAIN steps
    THEN [steps EXCEPT ![index + 1].status = status,
                       ![index + 1].error = IF error # NoError THEN error ELSE @]
    ELSE steps

\* logToFile(message, isError): one line of setup.log (and of the console).
logToFile(lg, msg, err, isError) ==
    Append(lg, [msg |-> msg, err |-> err, isError |-> isError])


\* ---------------------------------------------------------- error messages
\* A message as a sequence of fragments; a fragment is plain text or a file
\* path.
Text(s) == [path |-> FALSE, s |-> s]
Path(s) == [path |-> TRUE, s |-> s]

\* error.message of the causes: the errors of open and mkdir name the file,
\* the error of a write names none, nor do those of JSON.parse and of the
\* property accesses.
MessageOf(cause) ==
    CASE cause = "EACCES" ->
           <<Text("EACCES: permission denied, <syscall> '"), Path("<path>"), Text("'")>>
      [] cause = "ENOSPC" -> <<Text("ENOSPC: no space left on device, write")>>
      [] cause = "null" -> <<>>
      [] OTHER -> <<Text(cause)>>

\* `${error}` for error = new Error(`${prefix}${cause.message}`)
ErrorToString(error) ==
    IF error.cause = "null" THEN <<>>
    ELSE <<Text("Error: "), Text(error.prefix)>> \o MessageOf(error.cause)

\* sanitizeError(error).message: every path of the message is replaced by
\* the token [PATH].
sanitizeError(message) ==
    [i \in DOMAIN message |-> IF message[i].path THEN Text("[PATH]") ELSE message[i]]

\* The text logToFile() is given and writes to setup.log and to the console.
LineText(line) == <<Text(line.msg)>> \o ErrorToString(line.err)

\* ---------------------------------------------------------- writeFileSync
\* writeFileSync(path, data) opens the file with flag 'w', which creates it
\* or truncates it to length zero, and then writes the data.
WriteOpen(file) == FileOf(EmptyText)
WriteData(file, text) == FileOf(text)

\* ------------------------------------------------------- external commands
\* How a command started by exec(command, {timeout: 10000}) can end: exit
\* status 0, a non-zero exit status (taskkill, killall and pkill exit
\* non-zero when no process matches), the timeout, or a shell that cannot
\* find the command.
ExecOutcomes == {"ok", "exit_nonzero", "timeout", "not_found"}

\* What the started command does: it exits with status 0, exits with another
\* status, cannot be found by the shell, or never exits on its own.
ChildBehaviours == {"exits_ok", "exits_nonzero", "not_found", "hangs"}

\* exec(actualCommand, { timeout: 10000 }, callback)
ExecTimeoutMs == 10000

\* exec() arms a timer that kills the child only for a timeout above zero.
TimerArmed_never(timeout) == FALSE

TimerArmed(timeout) == timeout > 0

\* What the callback of exec() is called with once the child is gone; a child
\* killed by the timer gives an error, as a nonzero exit does.
ExecOutcome(c) ==
    CASE c = "exits_ok" -> "ok"
      [] c = "exits_nonzero" -> "exit_nonzero"
      [] c = "not_found" -> "not_found"
      [] c = "killed" -> "timeout"

KillCommand(os) ==
    CASE os = "win32" -> "taskkill /F /IM \"Claude.exe\""
      [] os = "darwin" -> "killall \"Claude\""
      [] os = "linux" -> "pkill -f \"claude\""
      [] OTHER -> "none"

StartCommand(os) ==
    CASE os = "darwin" -> "open -a \"Claude\""
      [] os = "linux" -> "claude"
      [] OTHER -> "none"

\* `exec_${command.substring(0, 20)}...`
ExecStepName(command) ==
    CASE command = "taskkill /F /IM \"Claude.exe\"" -> "exec_taskkill /F /IM \"Cla..."
      [] command = "killall \"Claude\"" -> "exec_killall \"Claude\"..."
      [] command = "pkill -f \"claude\"" -> "exec_pkill -f \"claude\"..."
      [] command = "open -a \"Claude\"" -> "exec_open -a \"Claude\"..."
      [] OTHER -> "exec_claude..."

\* actualCommand of execAsync
ActualCommand(isWindows, command) ==
    [shell |-> IF isWindows THEN "cmd.exe /c" ELSE "", command |-> command]

\* ------------------------------------------------------------------ state
VARIABLES
    os,             \* platform()
    isNpx,          \* import.meta.url.includes('node_modules')
    debugMode,      \* process.argv.includes('--debug')
    appDataSet,     \* process.env.APPDATA is defined
    dirExists,      \* existsSync(dirname(claudeConfigPath))
    disk,           \* the host config file at claudeConfigPath
    pc,             \* where the run of setup() stands
    setupSteps,     \* the step log
    log,            \* the lines this run appended to setup.log
    h,              \* the step indices held in the locals of setup/restartClaude
    config,         \* the local `config` of setup()
    serverConfig,   \* the local `serverConfig` of setup()
    result,         \* what setup() returned: "pending", "true" or "false"
    execd,          \* the commands handed to exec() in this run
    writes,         \* writeFileSync calls of this run that opened the host config
    child,          \* the child process exec() started and whose callback is awaited
    runs,           \* number of the current execution of the script
    preDisk,        \* the host config file when the current run started
    disk0,          \* the host config file before the first run
    prevResult,     \* how the previous run ended
    prevEntry,      \* mcpServers["desktop-commander"] on disk when it ended
    replay          \* the record of one call of setup() that a second call is held against

vars == <<os, isNpx, debugMode, appDataSet, dirExists, disk, pc, setupSteps, log, h, config,
          serverConfig, result, execd, writes, child, runs, preDisk, disk0, prevResult, prevEntry,
          replay>>

env == <<os, isNpx, debugMode, appDataSet>>
hist == <<runs, preDisk, disk0, prevResult, prevEntry>>

isWindows == os = "win32"

\* ------------------------------------------------- contents of the file
Missing == [t |-> "missing"]
Props(f) == [k \in {j \in DOMAIN f : f[j] # Missing} |-> f[k]]

\* A launch entry as a user or an earlier version may have left it.
OldEntry ==
    DocObj([command |-> JStr("node"), args |-> DocArr(<<JStr("old.js")>>),
            env |-> DocObj([KEEP |-> JStr("1")])])
OtherEntry == DocObj([command |-> JStr("other-server"), args |-> DocArr(<<>>)])

InitServerMaps ==
    { DocObj(Props([desktopCommander |-> l, unrelated |-> u] @@ (ServerName :> d))) :
        l \in {Missing, JNull, OldEntry}, d \in {Missing, OldEntry}, u \in {Missing, OtherEntry} }

InitDocs ==
    { DocObj(Props([other |-> o, mcpServers |-> m])) :
        o \in {Missing, JNum("1"), JNum("9007199254740993")},
        m \in {Missing, JNull, JStr("x"), DocArr(<<>>)} \cup InitServerMaps }
    \cup {JNull, JNum("5"), DocArr(<<JNum("1")>>)}

InitFiles == {Absent, FileOf(Garbage)} \cup {FileOf(JsonText(d)) : d \in InitDocs}

\* Reading a JSON document: the member of an object, if any.
DocGet(d, key) == IF d.t = "obj" /\ key \in DOMAIN d.p THEN d.p[key] ELSE Undefined

\* mcpServers["desktop-commander"] of the config held by a file.
EntryOf(file) ==
    IF file.exists /\ file.text.ok
    THEN DocGet(DocGet(file.text.doc, "mcpServers"), ServerName)
    ELSE Undefined


\* No call of setup() is being recorded.
NoReplay == [stage |-> "off", trace |-> <<>>, pos |-> 0, dir0 |-> FALSE,
             log1 |-> <<>>, log2 |-> <<>>]

\* What setupSteps can hold when setup() is called: nothing, in a process
\* that has just loaded the module, or the entry left by an earlier call in
\* the same process that failed in configureFilesystemAccess().
InitLogs ==
    { <<>>,
      <<[step |-> "main_setup", status |-> "failed", error |-> Err("", "EACCES")]>> }

NoHandles ==
    [setupStep |-> -1, configDirStep |-> -1, configFileStep |-> -1, readConfigStep |-> -1,
     configPrepStep |-> -1, updateConfigStep |-> -1, restartStep |-> -1, killStep |-> -1,
     startStep |-> -1, execStep |-> -1]


\* What a call of setup() does that can be seen from outside the step log:
\* where it stands, the commands it ran and their processes, the writes it
\* made and what they left, and what it returned.
Obs == [pc |-> pc, execd |-> execd, child |-> child, writes |-> writes, disk |-> disk,
        dirExists |-> dirExists, result |-> result]

\* The history of a step of the script. While a first call of setup() is
\* recorded, what the step shows is appended to the record; a second call
\* that is held against the record takes only steps that show what the
\* record says comes next.
Track ==
    CASE replay.stage = "first" ->
           replay' = [replay EXCEPT !.trace = Append(@, Obs')]
      [] replay.stage = "second" ->
           /\ replay.pos <= Len(replay.trace)
           /\ Obs' = replay.trace[replay.pos]
           /\ replay' = [replay EXCEPT !.pos = @ + 1]
      [] OTHER -> UNCHANGED replay

Init ==
    /\ os \in {"win32", "darwin", "linux", "freebsd"}
    /\ isNpx \in BOOLEAN
    /\ debugMode \in BOOLEAN
    /\ appDataSet \in (IF os = "win32" THEN BOOLEAN ELSE {FALSE})
    /\ disk \in InitFiles
    /\ dirExists \in (IF disk.exists THEN {TRUE} ELSE BOOLEAN)
    /\ pc = "load"
    /\ setupSteps = <<>>
    /\ log = <<>>
    /\ h = NoHandles
    /\ config = Undefined
    /\ serverConfig = Undefined
    /\ result = "pending"
    /\ execd = <<>>
    /\ writes = 0
    /\ child = "none"
    /\ runs = 1
    /\ preDisk = disk
    /\ disk0 = disk
    /\ prevResult = "none"
    /\ prevEntry = Undefined
    /\ replay = NoReplay

\* ------------------------------------------------------- module top level
\* join(process.env.APPDATA, 'Claude', ...) throws a TypeError when its first
\* argument is undefined.
ConfigPathThrows(platform, appData) == platform = "win32" /\ ~appData

\* The module is evaluated: claudeConfigPath is computed outside any try, so
\* an error here is an uncaught exception and setup() is never called.
LoadModule ==
    /\ pc = "load"
    /\ pc' = IF ConfigPathThrows(os, appDataSet) THEN "uncaught" ELSE "start"
    /\ UNCHANGED <<env, hist, dirExists, disk, setupSteps, log, h, config, serverConfig,
                   result, execd, child, writes>>
    /\ Track

\* --------------------------------------------------------------- setup()
\* A read_config_file whose try block lets a text that is not JSON pass.
ReadThrows_ignoreSyntax(file, readable) == ~readable

\* The try block of read_config_file throws when readFileSync fails or when
\* JSON.parse rejects the text.
ReadThrows(file, readable) == ~readable \/ JSONparseThrows(file.text)
ReadError(file, readable) == IF ~readable THEN "EACCES" ELSE "SyntaxError"

Say(lg, msg) == logToFile(lg, msg, NoError, FALSE)

\* The catch block of setup(): the main step fails, the error is logged and
\* setup() returns false.
Fail(steps, lg, setupStep, error) ==
    /\ setupSteps' = updateSetupStep(steps, setupStep, "failed", error)
    /\ log' = logToFile(lg, "Error updating Claude configuration: ", error, TRUE)
    /\ result' = "false"
    /\ pc' = "done"

\* setup() up to the end of configureFilesystemAccess(), which keeps the
\* tool's own config (another file) and lets only a failing mkdirSync escape.
Begin ==
    /\ pc = "start"
    /\ LET steps1 == addSetupStep(setupSteps, "main_setup")
           setupStep == Len(setupSteps)
           lg1 == IF debugMode
                  THEN Say(log, "Debug mode enabled. Will configure with Node.js inspector options.")
                  ELSE log
           lg2 == Say(lg1, "Configured to restrict access to home directory only")
       IN  /\ h' = [h EXCEPT !.setupStep = setupStep]
           /\ \E fs \in {"ok", "save_fails", "mkdir_throws"} :
                CASE fs = "ok" ->
                       /\ setupSteps' = steps1
                       /\ log' = Say(lg2, "Saved configuration file")
                       /\ pc' = "check_config_directory"
                       /\ UNCHANGED result
                  [] fs = "save_fails" ->
                       /\ setupSteps' = steps1
                       /\ log' = logToFile(lg2, "Error saving config: ", Err("", "EACCES"), TRUE)
                       /\ pc' = "check_config_directory"
                       /\ UNCHANGED result
                  [] OTHER -> Fail(steps1, lg1, setupStep, Err("", "EACCES"))
    /\ UNCHANGED <<env, hist, dirExists, disk, config, serverConfig, execd, child, writes>>
    /\ Track

\* check_config_directory: mkdirSync(configDir, {recursive: true}) if missing.
CheckConfigDirectory ==
    /\ pc = "check_config_directory"
    /\ LET steps1 == addSetupStep(setupSteps, "check_config_directory")
           configDirStep == Len(setupSteps)
       IN  /\ h' = [h EXCEPT !.configDirStep = configDirStep]
           /\ IF dirExists
              THEN /\ setupSteps' = updateSetupStep(steps1, configDirStep, "completed", NoError)
                   /\ pc' = "check_config_file"
                   /\ UNCHANGED <<dirExists, log, result>>
              ELSE \E ok \in BOOLEAN :
                     IF ok
                     THEN /\ dirExists' = TRUE
                          /\ setupSteps' = updateSetupStep(steps1, configDirStep, "completed", NoError)
                          /\ log' = Say(log, "Creating config directory: ")
                          /\ pc' = "check_config_file"
                          /\ UNCHANGED result
                     ELSE /\ UNCHANGED dirExists
                          /\ Fail(updateSetupStep(steps1, configDirStep, "failed", Err("", "EACCES")),
                                  Say(log, "Creating config directory: "), h.setupStep,
                                  Err("Failed to create config directory: ", "EACCES"))
    /\ UNCHANGED <<env, hist, disk, config, serverConfig, execd, child, writes>>
    /\ Track

\* check_config_file: the existsSync test, and for an existing file the
\* read_config_file step (readFileSync, JSON.parse).
CheckConfigFile ==
    /\ pc = "check_config_file"
    /\ LET steps1 == addSetupStep(setupSteps, "check_config_file")
           configFileStep == Len(setupSteps)
           steps2 == addSetupStep(steps1, "read_config_file")
           readConfigStep == Len(steps1)
       IN  IF ~disk.exists
           THEN /\ h' = [h EXCEPT !.configFileStep = configFileStep]
                /\ setupSteps' = steps1
                /\ log' = Say(Say(log, "Claude config file not found at: "),
                              "Creating default config file...")
                /\ pc' = "create_open"
                /\ UNCHANGED <<config, result>>
           ELSE /\ h' = [h EXCEPT !.configFileStep = configFileStep,
                                  !.readConfigStep = readConfigStep]
                /\ \E readable \in BOOLEAN :
                     IF ReadThrows(disk, readable)
                     THEN /\ Fail(updateSetupStep(steps2, readConfigStep, "failed",
                                                  Err("", ReadError(disk, readable))),
                                  log, h.setupStep,
                                  Err("Failed to read config file: ", ReadError(disk, readable)))
                          /\ UNCHANGED config
                     ELSE
                            /\ config' = JSONparse(disk.text)
                            /\ setupSteps' = updateSetupStep(
                                   updateSetupStep(steps2, readConfigStep, "completed", NoError),
                                   configFileStep, "exists", NoError)
                            /\ log' = Say(log, "Existing config file found and read successfully")
                            /\ pc' = "prepare_server_config"
                            /\ UNCHANGED result
    /\ UNCHANGED <<env, hist, dirExists, disk, serverConfig, execd, child, writes>>
    /\ Track

\* writeFileSync(claudeConfigPath, JSON.stringify(defaultConfig, null, 2)):
\* the file is opened for writing.
CreateOpen ==
    /\ pc = "create_open"
    /\ \E ok \in BOOLEAN :
         IF ok
         THEN /\ disk' = WriteOpen(disk)
              /\ writes' = writes + 1
              /\ pc' = "create_write"
              /\ UNCHANGED <<setupSteps, log, result>>
         ELSE /\ Fail(updateSetupStep(setupSteps, h.configFileStep, "create_failed", Err("", "EACCES")),
                      log, h.setupStep, Err("Failed to create config file: ", "EACCES"))
              /\ UNCHANGED <<disk, writes>>
    /\ UNCHANGED <<env, hist, dirExists, h, config, serverConfig, execd, child>>
    /\ Track

\* ... and the default config is written to it.
CreateWrite ==
    /\ pc = "create_write"
    /\ \E ok \in BOOLEAN :
         IF ok
         THEN /\ disk' = WriteData(disk, JsonText(JSONstringify(DefaultConfig(isWindows))))
              /\ log' = Say(log, "Default config file created.")
              /\ config' = DefaultConfig(isWindows)
              /\ setupSteps' = updateSetupStep(setupSteps, h.configFileStep, "created", NoError)
              /\ pc' = "prepare_server_config"
              /\ UNCHANGED result
         ELSE /\ disk' = FileOf(PartialText)
              /\ Fail(updateSetupStep(setupSteps, h.configFileStep, "create_failed", Err("", "ENOSPC")),
                      log, h.setupStep, Err("Failed to create config file: ", "ENOSPC"))
              /\ UNCHANGED config
    /\ UNCHANGED <<env, hist, dirExists, h, serverConfig, execd, child, writes>>
    /\ Track

\* prepare_server_config
PrepareServerConfig ==
    /\ pc = "prepare_server_config"
    /\ LET steps1 == addSetupStep(setupSteps, "prepare_server_config")
           configPrepStep == Len(setupSteps)
           lg1 == Say(log, IF isNpx THEN "Running in npx mode" ELSE "Running in local mode")
           lg2 == IF debugMode
                  THEN Say(lg1, IF isNpx
                                THEN "Setting up debug configuration with npx. The process will pause on start until a debugger connects."
                                ELSE "Setting up debug configuration with local path. The process will pause on start until a debugger connects.")
                  ELSE lg1
       IN  /\ h' = [h EXCEPT !.configPrepStep = configPrepStep]
           /\ serverConfig' = BuildServerConfig(isWindows, isNpx, debugMode)
           /\ setupSteps' = updateSetupStep(steps1, configPrepStep, "completed", NoError)
           /\ log' = lg2
    /\ pc' = "update_config"
    /\ UNCHANGED <<env, hist, dirExists, disk, config, result, execd, child, writes>>
    /\ Track

\* update_config: the merge in memory.
UpdateConfig ==
    /\ pc = "update_config"
    /\ LET steps1 == addSetupStep(setupSteps, "update_config")
           updateConfigStep == Len(setupSteps)
       IN  /\ h' = [h EXCEPT !.updateConfigStep = updateConfigStep]
           /\ IF MergeThrows(config)
              THEN /\ Fail(updateSetupStep(steps1, updateConfigStep, "failed", Err("", "TypeError")),
                           log, h.setupStep, Err("Failed to update config: ", "TypeError"))
                   /\ UNCHANGED config
              ELSE /\ config' = MergeConfig(config, serverConfig)
                   /\ setupSteps' = steps1
                   /\ log' = IF Truthy(GetProp(GetProp(config, "mcpServers"), LegacyName))
                             THEN Say(log, "Removed old desktopCommander configuration")
                             ELSE log
                   /\ pc' = "persist_open"
                   /\ UNCHANGED result
    /\ UNCHANGED <<env, hist, dirExists, disk, serverConfig, execd, child, writes>>
    /\ Track


\* An update_config whose catch block marks the step failed and does not
\* rethrow, so that setup() goes on to restartClaude().
PersistOpen_swallow ==
    /\ pc = "persist_open"
    /\ \E ok \in BOOLEAN :
         IF ok
         THEN /\ disk' = WriteOpen(disk)
              /\ writes' = writes + 1
              /\ pc' = "persist_write"
              /\ UNCHANGED <<setupSteps, log, result>>
         ELSE /\ setupSteps' = updateSetupStep(setupSteps, h.updateConfigStep, "failed",
                                               Err("", "EACCES"))
              /\ pc' = "restart"
              /\ UNCHANGED <<disk, writes, log, result>>
    /\ UNCHANGED <<env, hist, dirExists, h, config, serverConfig, execd, child>>
    /\ Track

\* writeFileSync(claudeConfigPath, JSON.stringify(config, null, 2), 'utf8'):
\* the file is opened for writing.
PersistOpen ==
    /\ pc = "persist_open"
    /\ \E ok \in BOOLEAN :
         IF ok
         THEN /\ disk' = WriteOpen(disk)
              /\ writes' = writes + 1
              /\ pc' = "persist_write"
              /\ UNCHANGED <<setupSteps, log, result>>
         ELSE /\ Fail(updateSetupStep(setupSteps, h.updateConfigStep, "failed", Err("", "EACCES")),
                      log, h.setupStep, Err("Failed to update config: ", "EACCES"))
              /\ UNCHANGED <<disk, writes>>
    /\ UNCHANGED <<env, hist, dirExists, h, config, serverConfig, execd, child>>
    /\ Track

\* ... and the merged config is written to it.
PersistWrite ==
    /\ pc = "persist_write"
    /\ \E ok \in BOOLEAN :
         IF ok
         THEN /\ disk' = WriteData(disk, JsonText(JSONstringify(config)))
              /\ setupSteps' = updateSetupStep(setupSteps, h.updateConfigStep, "completed", NoError)
              /\ log' = Say(Say(Say(Say(log, "Configuration updated successfully"),
                                    "Successfully added MCP server to Claude configuration!"),
                                "Configuration location: "),
                            IF debugMode THEN "To use the debug server: ..." ELSE "To use the server: ...")
              /\ pc' = "restart"
              /\ UNCHANGED result
         ELSE /\ disk' = FileOf(PartialText)
              /\ Fail(updateSetupStep(setupSteps, h.updateConfigStep, "failed", Err("", "ENOSPC")),
                      log, h.setupStep, Err("Failed to update config: ", "ENOSPC"))
    /\ UNCHANGED <<env, hist, dirExists, h, config, serverConfig, execd, child, writes>>
    /\ Track

\* --------------------------------------------------------- restartClaude()
\* execAsync(command) up to the call of exec(): the exec step is begun and
\* the command is started.
ExecBegin(steps, command) == addSetupStep(steps, ExecStepName(command))

\* The callback of exec(): the exec step is finalized.
ExecEnd(steps, execStep, outcome) ==
    IF outcome = "ok"
    THEN updateSetupStep(steps, execStep, "completed", NoError)
    ELSE updateSetupStep(steps, execStep, "failed", Err("", outcome))


\* The timer of exec() fires while the child is still running: the child is
\* sent the kill signal and ends.
ExecTimeout ==
    /\ pc \in {"kill_wait", "start_wait"}
    /\ child = "hangs"
    /\ TimerArmed(ExecTimeoutMs)
    /\ child' = "killed"
    /\ UNCHANGED <<env, hist, dirExists, disk, pc, setupSteps, log, h, config, serverConfig,
                   result, execd, writes>>
    /\ Track


\* A restartClaude() that starts the kill command and sets the settle timer
\* without awaiting the command.
RestartBegin_noAwait ==
    /\ pc = "restart"
    /\ LET steps1 == addSetupStep(setupSteps, "restart_claude")
           restartStep == Len(setupSteps)
           lg1 == Say(log, "Attempting to restart Claude on ")
           steps2 == addSetupStep(steps1, "kill_claude_process")
           killStep == Len(steps1)
       IN  IF os \in {"win32", "darwin", "linux"}
           THEN /\ setupSteps' = ExecBegin(steps2, KillCommand(os))
                /\ h' = [h EXCEPT !.restartStep = restartStep, !.killStep = killStep,
                                  !.execStep = Len(steps2)]
                /\ execd' = Append(execd, ActualCommand(isWindows, KillCommand(os)))
                /\ child' \in ChildBehaviours
                /\ log' = lg1
                /\ pc' = "settle"
           ELSE /\ setupSteps' = updateSetupStep(steps2, killStep, "completed", NoError)
                /\ h' = [h EXCEPT !.restartStep = restartStep, !.killStep = killStep]
                /\ log' = Say(lg1, "Successfully killed Claude process")
                /\ pc' = "settle"
                /\ UNCHANGED <<execd, child>>
    /\ UNCHANGED <<env, hist, dirExists, disk, config, serverConfig, result, writes>>
    /\ Track

\* restartClaude() up to the first await: the restart and kill steps are
\* begun and the platform's kill command, if it has one, is started.
RestartBegin ==
    /\ pc = "restart"
    /\ LET steps1 == addSetupStep(setupSteps, "restart_claude")
           restartStep == Len(setupSteps)
           lg1 == Say(log, "Attempting to restart Claude on ")
           steps2 == addSetupStep(steps1, "kill_claude_process")
           killStep == Len(steps1)
       IN  IF os \in {"win32", "darwin", "linux"}
           THEN /\ setupSteps' = ExecBegin(steps2, KillCommand(os))
                /\ h' = [h EXCEPT !.restartStep = restartStep, !.killStep = killStep,
                                  !.execStep = Len(steps2)]
                /\ execd' = Append(execd, ActualCommand(isWindows, KillCommand(os)))
                /\ child' \in ChildBehaviours
                /\ log' = lg1
                /\ pc' = "kill_wait"
           ELSE /\ setupSteps' = updateSetupStep(steps2, killStep, "completed", NoError)
                /\ h' = [h EXCEPT !.restartStep = restartStep, !.killStep = killStep]
                /\ log' = Say(lg1, "Successfully killed Claude process")
                /\ pc' = "settle"
                /\ UNCHANGED <<execd, child>>
    /\ UNCHANGED <<env, hist, dirExists, disk, config, serverConfig, result, writes>>
    /\ Track

\* A kill step that records a failed kill command as a failure.
KillStatus_failed(outcome) == IF outcome = "ok" THEN "completed" ELSE "failed"

\* The status the kill step gets: the end of the inner try, or its catch.
KillStatus(outcome) == IF outcome = "ok" THEN "completed" ELSE "no_process_found"

\* The kill command has ended: the exec callback, then the rest of the inner
\* try or its catch, then the settle timer is set.
KillExit ==
    /\ pc = "kill_wait"
    /\ child \notin {"none", "hangs"}
    /\ child' = "none"
    /\ \E outcome \in {ExecOutcome(child)} :
         LET steps1 == ExecEnd(setupSteps, h.execStep, outcome)
         IN  IF outcome = "ok"
             THEN /\ setupSteps' = updateSetupStep(steps1, h.killStep, KillStatus(outcome), NoError)
                  /\ log' = Say(log, "Successfully killed Claude process")
             ELSE /\ setupSteps' = updateSetupStep(steps1, h.killStep, KillStatus(outcome),
                                                   Err("", outcome))
                  /\ log' = Say(log, "Claude process not found or already terminated")
    /\ pc' = "settle"
    /\ UNCHANGED <<env, hist, dirExists, disk, h, config, serverConfig, result, execd, writes>>
    /\ Track


\* A start_claude_process that knows no platform to skip.
RelaunchKind_noSkip(platform) ==
    CASE platform \in {"win32", "darwin", "linux"} -> "exec"
      [] OTHER -> "none"

\* What start_claude_process does on a platform: it skips the relaunch,
\* executes a launch command, or has no branch for the platform.
RelaunchKind(platform) ==
    CASE platform = "win32" -> "skip"
      [] platform \in {"darwin", "linux"} -> "exec"
      [] OTHER -> "none"

\* The 3000 ms timer has fired: the start step is begun and the platform's
\* launch command, if it has one, is started.
SettleTimer ==
    /\ pc = "settle"
    /\ LET steps1 == addSetupStep(setupSteps, "start_claude_process")
           startStep == Len(setupSteps)
       IN  CASE RelaunchKind(os) = "skip" ->
                  /\ log' = Say(log, "Windows: Claude restart skipped - requires manual restart")
                  /\ setupSteps' = updateSetupStep(
                         updateSetupStep(steps1, startStep, "skipped", NoError),
                         h.restartStep, "completed", NoError)
                  /\ h' = [h EXCEPT !.startStep = startStep]
                  /\ pc' = "finish"
                  /\ UNCHANGED <<execd, child>>
             [] RelaunchKind(os) = "exec" ->
                  /\ setupSteps' = ExecBegin(steps1, StartCommand(os))
                  /\ h' = [h EXCEPT !.startStep = startStep, !.execStep = Len(steps1)]
                  /\ execd' = Append(execd, ActualCommand(isWindows, StartCommand(os)))
                  /\ child' \in ChildBehaviours
                  /\ pc' = "start_wait"
                  /\ UNCHANGED log
             [] OTHER ->
                  /\ setupSteps' = updateSetupStep(steps1, h.restartStep, "completed", NoError)
                  /\ h' = [h EXCEPT !.startStep = startStep]
                  /\ pc' = "finish"
                  /\ UNCHANGED <<log, execd, child>>
    /\ UNCHANGED <<env, hist, dirExists, disk, config, serverConfig, result, writes>>
    /\ Track

\* A restartClaude() without its outer catch: the rethrown error of the
\* launch command reaches the catch block of setup().
StartExit_rethrow ==
    /\ pc = "start_wait"
    /\ child \notin {"none", "hangs"}
    /\ child' = "none"
    /\ \E outcome \in {ExecOutcome(child)} :
         LET steps1 == ExecEnd(setupSteps, h.execStep, outcome)
         IN  IF outcome = "ok"
             THEN /\ setupSteps' = updateSetupStep(
                         updateSetupStep(steps1, h.startStep, "completed", NoError),
                         h.restartStep, "completed", NoError)
                  /\ log' = Say(log, "Claude has been restarted.")
                  /\ pc' = "finish"
                  /\ UNCHANGED result
             ELSE Fail(updateSetupStep(steps1, h.startStep, "failed", Err("", outcome)),
                       log, h.setupStep, Err("", outcome))
    /\ UNCHANGED <<env, hist, dirExists, disk, h, config, serverConfig, execd, writes>>
    /\ Track

\* The launch command has ended: the exec callback, then the rest of the
\* inner try, or the inner catch, the rethrow and the outer catch.
StartExit ==
    /\ pc = "start_wait"
    /\ child \notin {"none", "hangs"}
    /\ child' = "none"
    /\ \E outcome \in {ExecOutcome(child)} :
         LET steps1 == ExecEnd(setupSteps, h.execStep, outcome)
         IN  IF outcome = "ok"
             THEN /\ setupSteps' = updateSetupStep(
                         updateSetupStep(steps1, h.startStep, "completed", NoError),
                         h.restartStep, "completed", NoError)
                  /\ log' = Say(log, "Claude has been restarted.")
             ELSE /\ setupSteps' = updateSetupStep(
                         updateSetupStep(steps1, h.startStep, "failed", Err("", outcome)),
                         h.restartStep, "failed", Err("", outcome))
                  /\ log' = logToFile(
                         logToFile(log, "Failed to restart Claude: ", Err("", outcome), TRUE),
                         "If Claude Desktop is not installed use this link to download https://claude.ai/download",
                         NoError, TRUE)
    /\ pc' = "finish"
    /\ UNCHANGED <<env, hist, dirExists, disk, h, config, serverConfig, result, execd, writes>>
    /\ Track


\* A setup() that returns whether no entry of the step log has failed.
Finish_readsLog ==
    /\ pc = "finish"
    /\ setupSteps' = updateSetupStep(setupSteps, h.setupStep, "completed", NoError)
    /\ log' = Say(log, "Setup completed successfully")
    /\ result' = IF \E i \in DOMAIN setupSteps : setupSteps[i].status = "failed"
                 THEN "false" ELSE "true"
    /\ pc' = "done"
    /\ UNCHANGED <<env, hist, dirExists, disk, h, config, serverConfig, execd, child, writes>>
    /\ Track

\* restartClaude() has returned: setup() completes the main step and
\* returns true.
Finish ==
    /\ pc = "finish"
    /\ setupSteps' = updateSetupStep(setupSteps, h.setupStep, "completed", NoError)
    /\ log' = Say(log, "Setup completed successfully")
    /\ result' = "true"
    /\ pc' = "done"
    /\ UNCHANGED <<env, hist, dirExists, disk, h, config, serverConfig, execd, child, writes>>
    /\ Track

\* ------------------------------------------------------------ environment
\* The process is interrupted or killed before setup() has returned; what it
\* held in memory is gone, the files stay as they are.
Crash ==
    /\ pc \notin {"done", "crashed", "uncaught"}
    /\ pc' = "crashed"
    /\ setupSteps' = <<>>
    /\ h' = NoHandles
    /\ config' = Undefined
    /\ serverConfig' = Undefined
    /\ child' = "none"
    /\ UNCHANGED <<env, hist, dirExists, disk, log, result, execd, writes, replay>>

\* The script is executed again, on the same machine with the same arguments.
NewRun ==
    /\ pc \in {"done", "crashed", "uncaught"}
    /\ runs < MaxRuns
    /\ runs' = runs + 1
    /\ preDisk' = disk
    /\ prevResult' = IF pc = "done" THEN result ELSE pc
    /\ prevEntry' = EntryOf(disk)
    /\ pc' = "load"
    /\ setupSteps' = <<>>
    /\ log' = <<>>
    /\ h' = NoHandles
    /\ config' = Undefined
    /\ serverConfig' = Undefined
    /\ result' = "pending"
    /\ execd' = <<>>
    /\ writes' = 0
    /\ child' = "none"
    /\ UNCHANGED <<env, dirExists, disk, disk0, replay>>

\* The steps of the script itself.
Program ==
    \/ LoadModule
    \/ Begin
    \/ CheckConfigDirectory
    \/ CheckConfigFile
    \/ CreateOpen
    \/ CreateWrite
    \/ PrepareServerConfig
    \/ UpdateConfig
    \/ PersistOpen
    \/ PersistWrite
    \/ RestartBegin
    \/ ExecTimeout
    \/ KillExit
    \/ SettleTimer
    \/ StartExit
    \/ Finish

Next ==
    \/ Program
    \/ Crash
    \/ NewRun

Spec == Init /\ [][Next]_vars

\* Runs that nothing interrupts: synchronous code runs on, and the event loop
\* calls every callback that is due (the settle timer, the timer of exec(),
\* the exit of a child that ends).
LiveNext ==
    \/ Program
    \/ NewRun

LiveSpec == Init /\ [][LiveNext]_vars /\ WF_vars(Program)


\* ------------------------------------------------- two calls of setup()
\* The module has been loaded and its importer is about to call setup():
\* setupSteps holds what earlier calls left in it.
FirstCall ==
    /\ replay.stage = "off"
    /\ pc = "start"
    /\ \E steps \in InitLogs :
         /\ setupSteps' = steps
         /\ replay' = [stage |-> "first", trace |-> <<>>, pos |-> 1, dir0 |-> dirExists,
                       log1 |-> steps, log2 |-> <<>>]
    /\ UNCHANGED <<env, hist, dirExists, disk, pc, log, h, config, serverConfig, result,
                   execd, writes, child>>

\* The first call has returned. The machine and the host config file are put
\* back as they were, and setup() is called with other contents of the step
\* log: the other initial log or, after a first call that started with an
\* empty log, what that call left there.
SecondCall ==
    /\ replay.stage = "first"
    /\ pc = "done"
    /\ \E steps \in (InitLogs \ {replay.log1})
                      \cup (IF replay.log1 = <<>> THEN {setupSteps} ELSE {}) :
         /\ setupSteps' = steps
         /\ replay' = [replay EXCEPT !.stage = "second", !.log2 = steps]
    /\ disk' = disk0
    /\ dirExists' = replay.dir0
    /\ pc' = "start"
    /\ log' = <<>>
    /\ h' = NoHandles
    /\ config' = Undefined
    /\ serverConfig' = Undefined
    /\ result' = "pending"
    /\ execd' = <<>>
    /\ writes' = 0
    /\ child' = "none"
    /\ UNCHANGED <<env, hist>>

\* The second call can show, with its next step, what the first call showed
\* next.
CanFollow == ENABLED Program

\* Two calls of setup() in one process, the second held against the first.
ReplayNext ==
    \/ Program
    \/ FirstCall
    \/ SecondCall

ReplaySpec == Init /\ [][ReplayNext]_vars

\* ------------------------------------------------------------- properties
Returned == pc = "done"
Succeeded == pc = "done" /\ result = "true"

HasStep(name) == \E i \in DOMAIN setupSteps : setupSteps[i].step = name
StepIs(name, status) ==
    \E i \in DOMAIN setupSteps : setupSteps[i].step = name /\ setupSteps[i].status = status

PreValid == preDisk.exists /\ preDisk.text.ok
PreDoc == preDisk.text.doc
PostDoc == disk.text.doc

\* The config a run that started from preDisk has in memory before the merge.
PreConfig == IF preDisk.exists THEN JSONparse(preDisk.text) ELSE DefaultConfig(isWindows)

\* The file holding the complete merged config of a run that started from preDisk.
MergedFile ==
    FileOf(JsonText(JSONstringify(
        MergeConfig(PreConfig, BuildServerConfig(isWindows, isNpx, debugMode)))))

\* C1: whenever setup() has returned success, the host config file holds a
\* config whose mcpServers["desktop-commander"] is the launch entry built in
\* that run.
C1_SuccessHoldsEntry ==
    Succeeded =>
        /\ disk.exists
        /\ disk.text.ok
        /\ EntryOf(disk) = JSONstringify(serverConfig)

\* C2: at every instant the host config file is either what it was when the
\* run started or the complete merged config.
C2_OldOrNew ==
    \/ disk = preDisk
    \/ /\ ~preDisk.exists \/ PreValid
       /\ ~MergeThrows(PreConfig)
       /\ disk = MergedFile

HardPhaseFailed ==
    \/ StepIs("check_config_directory", "failed")
    \/ StepIs("check_config_file", "create_failed")
    \/ StepIs("read_config_file", "failed")
    \/ StepIs("update_config", "failed")

\* C3: a run that returned failure because check_config_directory,
\* check_config_file / read_config_file or update_config failed has left the
\* host config file as it was when the run started.
C3_FailureLeavesFile ==
    (Returned /\ result = "false" /\ HardPhaseFailed) => disk = preDisk

PreMalformed == preDisk.exists /\ ~preDisk.text.ok

\* C4: a run that found an existing host config file that is not JSON never
\* writes the file, never begins the update_config or restart_claude step,
\* and returns failure.
C4_MalformedAborts ==
    PreMalformed =>
        /\ writes = 0
        /\ disk = preDisk
        /\ ~HasStep("update_config")
        /\ ~HasStep("restart_claude")
        /\ pc \in {"load", "uncaught", "start", "check_config_directory", "check_config_file",
                  "done", "crashed"}
        /\ Returned => result = "false"

C4_Witness ==
    /\ PreMalformed
    /\ Returned
    /\ result = "false"
    /\ StepIs("read_config_file", "failed")

TopLevelKept(pre, post) ==
    /\ post.t = "obj"
    /\ (DOMAIN pre.p) \ {"mcpServers"} = (DOMAIN post.p) \ {"mcpServers"}
    /\ \A k \in (DOMAIN pre.p) \ {"mcpServers"} : post.p[k] = pre.p[k]

EntriesKept(pre, post) ==
    LET m == DocGet(pre, "mcpServers")
        n == DocGet(post, "mcpServers")
    IN  /\ m.t = "obj" =>
              /\ n.t = "obj"
              /\ \A k \in (DOMAIN m.p) \ {ServerName, LegacyName} :
                    k \in DOMAIN n.p /\ n.p[k] = m.p[k]
        /\ m.t = "arr" => n = m

\* C5: after a successful run against an existing host config, the top-level
\* keys other than mcpServers are the same keys with the same values, and
\* every mcpServers entry other than "desktop-commander" and
\* "desktopCommander" is still there with the same value.
C5_OthersPreserved ==
    (Succeeded /\ preDisk.exists) =>
        /\ disk.exists
        /\ disk.text.ok
        /\ IF PreDoc.t = "obj"
           THEN TopLevelKept(PreDoc, PostDoc) /\ EntriesKept(PreDoc, PostDoc)
           ELSE PostDoc = PreDoc

PreHasLegacy ==
    /\ PreValid
    /\ DocGet(PreDoc, "mcpServers").t = "obj"
    /\ LegacyName \in DOMAIN DocGet(PreDoc, "mcpServers").p

\* C6: after a successful run against a host config with an mcpServers
\* entry named "desktopCommander", whatever its value, that entry is absent
\* and an entry named "desktop-commander" is present.
C6_LegacyRemoved ==
    (Succeeded /\ PreHasLegacy) =>
        /\ disk.exists
        /\ disk.text.ok
        /\ DocGet(PostDoc, "mcpServers").t = "obj"
        /\ LegacyName \notin DOMAIN DocGet(PostDoc, "mcpServers").p
        /\ ServerName \in DOMAIN DocGet(PostDoc, "mcpServers").p

\* C7: when two runs in succession both succeed, the entry
\* mcpServers["desktop-commander"] on disk after the second run equals the
\* one on disk after the first.
C7_SameEntryTwice ==
    (runs >= 2 /\ Succeeded /\ prevResult = "true") => EntryOf(disk) = prevEntry

C7_Witness ==
    /\ runs = 2
    /\ Succeeded
    /\ prevResult = "true"
    /\ EntryOf(disk0) = OldEntry
    /\ EntryOf(disk) = JSONstringify(BuildServerConfig(isWindows, isNpx, debugMode))
    /\ EntryOf(disk) = prevEntry

\* C8: in any single run the host config file is written at most once.
C8_AtMostOneWrite == writes <= 1

\* C9: once update_config has completed, setup() does not return failure,
\* whatever the kill and launch commands do: no error leaves restartClaude().
C9_RestartNeverFails ==
    StepIs("update_config", "completed") =>
        /\ result # "false"
        /\ ~StepIs("main_setup", "failed")
        /\ Returned => result = "true"

C9_Witness ==
    /\ Succeeded
    /\ StepIs("update_config", "completed")
    /\ StepIs("kill_claude_process", "no_process_found")
    /\ StepIs("start_claude_process", "failed")
    /\ StepIs("restart_claude", "failed")

KillFoundNoProcess ==
    /\ h.killStep >= 0
    /\ h.killStep + 2 \in DOMAIN setupSteps
    /\ setupSteps[h.killStep + 2].step = ExecStepName(KillCommand(os))
    /\ setupSteps[h.killStep + 2].status = "failed"
    /\ setupSteps[h.killStep + 2].error = Err("", "exit_nonzero")

\* C10: when the kill command exits non-zero because no host process runs,
\* the kill step has status no_process_found, the run goes on to the
\* start_claude_process step and setup() returns success.
C10_NoProcessIsNotFatal ==
    KillFoundNoProcess =>
        /\ setupSteps[h.killStep + 1].step = "kill_claude_process"
        /\ setupSteps[h.killStep + 1].status = "no_process_found"
        /\ pc \in {"settle", "start_wait", "finish", "done"}
        /\ pc # "settle" => HasStep("start_claude_process")
        /\ Returned => result = "true"

C10_Witness ==
    /\ KillFoundNoProcess
    /\ Succeeded
    /\ StepIs("kill_claude_process", "no_process_found")
    /\ HasStep("start_claude_process")

\* The exit status of the process once the run is over: 1 after an uncaught
\* exception and after process.exit(1), 0 otherwise.
ExitStatus ==
    CASE pc = "uncaught" -> 1
      [] pc = "done" /\ result = "false" -> 1
      [] OTHER -> 0

RunFailed == pc = "uncaught" \/ (pc = "done" /\ result # "true")

\* C11: every failure of a run ends with the main_setup step failed with an
\* error message, an ERROR line in the diagnostic log and setup() returning
\* false; no error escapes as an uncaught exception.
C11_FailuresAreCaught ==
    /\ pc # "uncaught"
    /\ RunFailed =>
          /\ result = "false"
          /\ \E i \in DOMAIN setupSteps :
                /\ setupSteps[i].step = "main_setup"
                /\ setupSteps[i].status = "failed"
                /\ setupSteps[i].error # NoError
          /\ \E j \in DOMAIN log : log[j].isError

\* The steps that mark the entry of the five phases, in the order of setup().
Phases == <<"check_config_directory", "check_config_file", "prepare_server_config",
            "update_config", "restart_claude">>

\* The statuses a phase step has once its phase is over without an error.
PhaseDone == {"completed", "created", "exists"}

StepCount(name) == Cardinality({i \in DOMAIN setupSteps : setupSteps[i].step = name})
StepAt(name) == CHOOSE i \in DOMAIN setupSteps : setupSteps[i].step = name

\* C12: the phases begin in the fixed order, each at most once per run, and
\* a phase has begun only if every earlier phase has begun before it and is
\* over without a hard failure; so no phase follows a failed one and
\* restart_claude exists only once update_config is completed.
C12_PhasesInOrder ==
    /\ \A k \in DOMAIN Phases : StepCount(Phases[k]) <= 1
    /\ \A k \in DOMAIN Phases : \A j \in DOMAIN Phases :
          (j < k /\ HasStep(Phases[k])) =>
             /\ HasStep(Phases[j])
             /\ StepAt(Phases[j]) < StepAt(Phases[k])
             /\ setupSteps[StepAt(Phases[j])].status \in PhaseDone
    /\ HasStep("restart_claude") => StepIs("update_config", "completed")
    /\ (result = "false" /\ pc = "done") => ~StepIs("restart_claude", "started")

\* A run that failed in update_config: four phases have begun, no fifth.
C12_Witness ==
    /\ pc = "done"
    /\ result = "false"
    /\ StepIs("update_config", "failed")
    /\ StepIs("prepare_server_config", "completed")
    /\ ~HasStep("restart_claude")

Terminated == pc \in {"done", "uncaught"}

ExecSteps == {i \in DOMAIN setupSteps :
                \E c \in {KillCommand(os), StartCommand(os)} :
                   setupSteps[i].step = ExecStepName(c)}

\* A timeout is the error of exec steps and of the sub-steps that awaited
\* them, it marks the exec step failed, and the run still succeeds.
TimeoutIsLocal ==
    /\ \A i \in DOMAIN setupSteps :
          setupSteps[i].error.cause = "timeout" =>
             /\ setupSteps[i].step # "main_setup"
             /\ i \in ExecSteps => setupSteps[i].status = "failed"
    /\ (pc = "done" /\ \E i \in ExecSteps : setupSteps[i].error.cause = "timeout")
          => result = "true"

\* C13: every run that is started ends, with the exit status of a success or
\* of a failure, also when a kill or launch command never exits on its own:
\* the command is ended at its timeout, the timeout is recorded as the failure
\* of its exec step and never reaches the catch block of setup().
C13_RunsTerminate ==
    /\ [](pc = "load" => <>(Terminated /\ ExitStatus \in {0, 1}))
    /\ []TimeoutIsLocal

\* A run has ended although its launch command had to be ended by the timer.
C13_Witness ==
    /\ pc = "done"
    /\ result = "true"
    /\ \E i \in ExecSteps :
          /\ setupSteps[i].step = ExecStepName(StartCommand(os))
          /\ setupSteps[i].status = "failed"
          /\ setupSteps[i].error.cause = "timeout"

\* The platform's default shell invocation, as a JSON document.
ShellInvocation ==
    IF isWindows
    THEN DocObj([command |-> JStr("cmd.exe"), args |-> DocArr(<<JStr("/c")>>)])
    ELSE DocObj([command |-> JStr("/bin/sh"), args |-> DocArr(<<JStr("-c")>>)])

\* The run started without a host config file and has returned success.
FreshSuccess == ~preDisk.exists /\ Succeeded

OneServerEntry ==
    /\ disk.exists
    /\ disk.text.ok
    /\ DocGet(PostDoc, "mcpServers").t = "obj"
    /\ Cardinality(DOMAIN DocGet(PostDoc, "mcpServers").p) = 1

\* C14 as stated: starting with no host config file, a successful run leaves
\* a file with exactly one mcpServers entry, whose command and args are the
\* platform's default shell invocation.
C14_EntryIsShell ==
    FreshSuccess =>
        /\ OneServerEntry
        /\ \A k \in DOMAIN DocGet(PostDoc, "mcpServers").p :
              /\ DocGet(DocGet(PostDoc, "mcpServers").p[k], "command")
                    = DocGet(ShellInvocation, "command")
              /\ DocGet(DocGet(PostDoc, "mcpServers").p[k], "args")
                    = DocGet(ShellInvocation, "args")

\* C14 amended: starting with no host config file, a successful run leaves a
\* file with exactly one mcpServers entry, "desktop-commander", which is the
\* launch entry built in that run (node or npx), and the platform's default
\* shell invocation is the value of the top-level key serverConfig.
C14_EntryIsLaunchSpec ==
    FreshSuccess =>
        /\ OneServerEntry
        /\ DOMAIN DocGet(PostDoc, "mcpServers").p = {ServerName}
        /\ EntryOf(disk) = JSONstringify(serverConfig)
        /\ DocGet(EntryOf(disk), "command").s \in {"node", "node.exe", "npx", "npx.cmd"}
        /\ DocGet(PostDoc, "serverConfig") = ShellInvocation
        /\ DOMAIN PostDoc.p = {"serverConfig", "mcpServers"}

C14_Witness ==
    /\ FreshSuccess
    /\ runs = 1
    /\ OneServerEntry
    /\ DocGet(PostDoc, "serverConfig") = ShellInvocation

HasInspectFlag(spec) ==
    \E i \in DOMAIN GetProp(spec, "args").e : GetProp(spec, "args").e[i] = JStr("--inspect-brk=9229")

HasDiagnosticEnv(spec) ==
    /\ GetProp(spec, "env").t = "obj"
    /\ {"NODE_OPTIONS", "DEBUG"} \subseteq DOMAIN GetProp(spec, "env").p

DebugSelected(spec, debug) ==
    IF debug
    THEN HasInspectFlag(spec) /\ HasDiagnosticEnv(spec)
    ELSE ~HasInspectFlag(spec) /\ "env" \notin DOMAIN spec.p

\* C15: on every platform and for both run methods the launch entry that
\* prepare_server_config builds has --inspect-brk=9229 in args and
\* NODE_OPTIONS and DEBUG in env in debug mode, and has neither the flag nor
\* an env otherwise; this is so for the entry of the run and for every input.
C15_DebugSelection ==
    /\ serverConfig # Undefined => DebugSelected(serverConfig, debugMode)
    /\ \A w \in BOOLEAN : \A n \in BOOLEAN : \A d \in BOOLEAN :
          DebugSelected(BuildServerConfig(w, n, d), d)

\* A local run in debug mode has built its entry.
C15_Witness ==
    /\ debugMode
    /\ ~isNpx
    /\ serverConfig # Undefined
    /\ HasInspectFlag(serverConfig)
    /\ HasDiagnosticEnv(serverConfig)

\* The kill sub-step is over: it has its final status, the exec step of the
\* kill command is finalized and no child is awaited.
KillSettled ==
    /\ \/ StepIs("kill_claude_process", "completed")
       \/ StepIs("kill_claude_process", "no_process_found")
    /\ ~StepIs(ExecStepName(KillCommand(os)), "started")
    /\ child = "none"

\* This step of the run begins the start_claude_process sub-step.
StartBegins ==
    /\ ~HasStep("start_claude_process")
    /\ \E i \in DOMAIN setupSteps' : setupSteps'[i].step = "start_claude_process"

\* C16: in a restart the kill attempt, the settle delay and the relaunch
\* attempt follow one another: the start step is begun only by the settle
\* timer, when the kill step has settled; the wait for the kill command is
\* followed by the settle delay; and once the delay is over the start step
\* exists, whatever the kill step's outcome was.
C16_KillSettleRelaunch ==
    /\ [][StartBegins => pc = "settle" /\ KillSettled]_vars
    /\ [][(pc = "kill_wait" /\ pc' # pc) => pc' \in {"settle", "crashed"}]_vars
    /\ [][(pc = "settle" /\ pc' # pc) =>
             \/ pc' = "crashed"
             \/ StartBegins /\ pc' \in {"start_wait", "finish"}]_vars
    /\ [](HasStep("start_claude_process") =>
             /\ KillSettled \/ pc = "start_wait"
             /\ StepAt("kill_claude_process") < StepAt("start_claude_process"))
    /\ [](pc \in {"start_wait", "finish"} => HasStep("start_claude_process"))

\* The launch command was started after a kill command that failed.
C16_Witness ==
    /\ pc = "start_wait"
    /\ StepIs("kill_claude_process", "no_process_found")
    /\ StepIs("start_claude_process", "started")
    /\ Len(execd) = 2

ToldToRestartManually ==
    \E j \in DOMAIN log :
        log[j].msg = "Windows: Claude restart skipped - requires manual restart"

\* C17: on Windows the only command ever executed is the kill command; once
\* the start_claude_process step exists it is skipped, restart_claude is
\* completed and the user has been told to restart manually, and a run that
\* succeeded has that step.
C17_WindowsSkipsRelaunch ==
    isWindows =>
        /\ \A i \in DOMAIN execd : execd[i] = ActualCommand(TRUE, KillCommand("win32"))
        /\ Len(execd) <= 1
        /\ pc # "start_wait"
        /\ HasStep("start_claude_process") =>
              /\ StepIs("start_claude_process", "skipped")
              /\ StepIs("restart_claude", "completed")
              /\ ToldToRestartManually
        /\ Succeeded => HasStep("start_claude_process")

C17_Witness ==
    /\ isWindows
    /\ Succeeded
    /\ StepIs("start_claude_process", "skipped")
    /\ StepIs("restart_claude", "completed")
    /\ Len(execd) = 1

FatalLines == {j \in DOMAIN log : log[j].msg = "Error updating Claude configuration: "}

\* C18: the text of every fatal-error line of the log is the sanitized text,
\* with each file path replaced by [PATH]: no such line holds a path.
C18_FatalMessagesRedacted ==
    \A j \in FatalLines :
        /\ LineText(log[j]) = sanitizeError(LineText(log[j]))
        /\ \A i \in DOMAIN LineText(log[j]) : ~LineText(log[j])[i].path

StillStarted == {i \in DOMAIN setupSteps : setupSteps[i].status = "started"}

\* C19: when setup() has returned, with success or with failure, no entry of
\* the step log still has status started.
C19_AllStepsFinalized ==
    Returned => StillStarted = {}

\* The name of the entry each local of setup() and restartClaude() denotes.
HandleNames(f) ==
    CASE f = "setupStep" -> {"main_setup"}
      [] f = "configDirStep" -> {"check_config_directory"}
      [] f = "configFileStep" -> {"check_config_file"}
      [] f = "readConfigStep" -> {"read_config_file"}
      [] f = "configPrepStep" -> {"prepare_server_config"}
      [] f = "updateConfigStep" -> {"update_config"}
      [] f = "restartStep" -> {"restart_claude"}
      [] f = "killStep" -> {"kill_claude_process"}
      [] f = "startStep" -> {"start_claude_process"}
      [] OTHER -> {ExecStepName(KillCommand(os)), ExecStepName(StartCommand(os))}

\* Every handle that was returned denotes the entry its call created.
HandlesDenote ==
    \A f \in DOMAIN h :
        h[f] # -1 =>
           /\ h[f] + 1 \in DOMAIN setupSteps
           /\ setupSteps[h[f] + 1].step \in HandleNames(f)

\* update, for the handles of the first and the last entry and for the
\* handles just outside the log, changes the status, and the error if one is
\* given, of the entry at its handle and nothing else, and changes nothing at
\* all for a handle that denotes no entry.
UpdateLocal ==
    \A index \in {-1, 0, Len(setupSteps) - 1, Len(setupSteps)} :
        \A error \in {NoError, Err("", "EACCES")} :
           updateSetupStep(setupSteps, index, "finalized", error) =
              [i \in DOMAIN setupSteps |->
                 IF i = index + 1
                 THEN [step |-> setupSteps[i].step,
                       status |-> "finalized",
                       error |-> IF error = NoError THEN setupSteps[i].error ELSE error]
                 ELSE setupSteps[i]]

\* begin appends one entry and leaves the others where they are; the handle
\* it returns, the length before the call, denotes the new entry.
BeginAppends ==
    LET after == addSetupStep(setupSteps, "new_step")
        handle == Len(setupSteps)
    IN  /\ Len(after) = Len(setupSteps) + 1
        /\ \A i \in DOMAIN setupSteps : after[i] = setupSteps[i]
        /\ after[handle + 1].step = "new_step"

\* Within one execution of the script the log only grows and names stay,
\* and an entry changes only if a handle of the run denotes it.
AppendOnly ==
    (runs' = runs /\ pc' # "crashed") =>
        /\ Len(setupSteps') >= Len(setupSteps)
        /\ \A i \in DOMAIN setupSteps :
              /\ setupSteps'[i].step = setupSteps[i].step
              /\ setupSteps'[i] # setupSteps[i] => \E f \in DOMAIN h : h'[f] + 1 = i

\* C20: the step log is append-only and handles are stable: the length never
\* decreases and no name changes, each handle denotes the entry its begin
\* created also after further steps were begun, update changes only the entry
\* at its handle, and update with a handle that denotes no entry changes
\* nothing and does not fail.
C20_AppendOnlyStableHandles ==
    /\ [](HandlesDenote /\ UpdateLocal /\ BeginAppends)
    /\ [][AppendOnly]_vars

\* The kill step is awaiting its nested exec step, begun after it.
C20_Witness ==
    /\ pc = "kill_wait"
    /\ h.killStep # -1
    /\ h.execStep = h.killStep + 1
    /\ setupSteps[h.killStep + 1].step = "kill_claude_process"
    /\ setupSteps[h.killStep + 1].status = "started"
    /\ setupSteps[h.execStep + 1].status = "started"

\* C21: control flow does not depend on the step log. Two calls of setup()
\* from the same environment and the same host config file, with different
\* contents of setupSteps at their start, go through the same phases, run the
\* same commands, make the same writes and return the same result: whatever
\* the first call showed step by step, the second call can show, and once it
\* has shown all of it, it has returned as the first call did.
C21_LogIndependent ==
    replay.stage = "second" =>
        /\ replay.log2 # replay.log1
        /\ replay.pos <= Len(replay.trace) => CanFollow
        /\ replay.pos > Len(replay.trace) =>
              /\ pc = "done"
              /\ Obs = replay.trace[Len(replay.trace)]

\* The second call has returned success like the first, with a step log that
\* started with an entry the first call's log did not start with.
C21_Witness ==
    /\ replay.stage = "second"
    /\ replay.pos > Len(replay.trace)
    /\ replay.log1 = <<>>
    /\ replay.log2 # <<>>
    /\ pc = "done"
    /\ result = "true"
    /\ Len(execd) = 2

\* The entry invokes the published package by name, or the index.js of the
\* program's own install location.
NpxStyle(spec) ==
    \E i \in DOMAIN GetProp(spec, "args").e :
        GetProp(spec, "args").e[i] = JStr("@wonderwhy-er/desktop-commander@latest")
LocalStyle(spec) ==
    \E i \in DOMAIN GetProp(spec, "args").e : GetProp(spec, "args").e[i] = JStr(IndexPath)

\* C22: the launch entry follows the detected run method: in every
\* environment it is the npx-style invocation exactly when getExecutionContext
\* detects the run method npx, and the local-path invocation for every other
\* detected run method.
C22_SpecFollowsRunMethod ==
    serverConfig # Undefined =>
        \A s \in EnvSignals :
            LET method == getExecutionContext(s, isNpx).runMethod
            IN  /\ NpxStyle(serverConfig) <=> method = "npx"
                /\ method # "npx" => LocalStyle(serverConfig)

\* The command was handed to exec() in this run and its exec step is
\* completed.
RanAndSucceeded(command) ==
    /\ command # "none"
    /\ \E i \in DOMAIN execd : execd[i] = ActualCommand(isWindows, command)
    /\ StepIs(ExecStepName(command), "completed")

SaidKilled == \E j \in DOMAIN log : log[j].msg = "Successfully killed Claude process"

\* C23: a restart sub-step is completed only if its command ran and exited
\* successfully: kill_claude_process is completed, and the kill is logged
\* as successful, only after the platform's termination command ran and
\* succeeded; start_claude_process is completed only after the launch command
\* did; and restart_claude is completed only if start_claude_process is
\* completed or skipped.
C23_CompletedMeansRan ==
    /\ (StepIs("kill_claude_process", "completed") \/ (SaidKilled /\ pc # "crashed"))
          => RanAndSucceeded(KillCommand(os))
    /\ StepIs("start_claude_process", "completed") => RanAndSucceeded(StartCommand(os))
    /\ StepIs("restart_claude", "completed") =>
          \/ StepIs("start_claude_process", "completed")
          \/ StepIs("start_claude_process", "skipped")

\* The exec step of the launch command ended with the given cause.
StartExecFailed(cause) ==
    \E i \in DOMAIN setupSteps :
        /\ setupSteps[i].step = ExecStepName(StartCommand(os))
        /\ setupSteps[i].status = "failed"
        /\ setupSteps[i].error.cause = cause

\* The launch command has started the host application and the application
\* keeps running on its own. `open -a "Claude"` hands the launch to the
\* system and exits with status 0; `claude` is the application itself, which
\* as a desktop application does not exit: it is the child exec() waits for.
LaunchKeepsRunning ==
    \/ os = "darwin" /\ StepIs(ExecStepName(StartCommand(os)), "completed")
    \/ /\ os = "linux"
       /\ \/ pc = "start_wait" /\ child \in {"hangs", "killed"}
          \/ StartExecFailed("timeout")

\* The timer of exec() has ended the child that is the host application.
AppTerminatedByTimer ==
    /\ os = "linux"
    /\ \/ pc = "start_wait" /\ child = "killed"
       \/ StartExecFailed("timeout")

\* C24: when the launch command starts the host application and the
\* application keeps running, the timeout of the launch command does not end
\* the application and does not make the launch a failure: once setup() has
\* returned, start_claude_process and restart_claude are completed and the
\* application is still running.
C24_LaunchSurvivesTimeout ==
    LaunchKeepsRunning =>
        /\ ~AppTerminatedByTimer
        /\ pc = "done" =>
              /\ StepIs("start_claude_process", "completed")
              /\ StepIs("restart_claude", "completed")
====
